---------------------------- MODULE Spec2Model ----------------------------
(***************************************************************************)
(* mod_audio_stream (NETPLAY fork): the uuid_audio_stream command          *)
(* dispatcher (stream_function), the media-bug callback (capture_callback) *)
(* with its playback ring buffer, and the session life cycle.              *)
(*                                                                         *)
(* The glue layer (audio_streamer_glue: stream_session_init,               *)
(* stream_session_cleanup, stream_session_pauseresume,                     *)
(* stream_session_send_text, stream_frame, is_valid_utf8, validate_ws_uri  *)
(* and the sink's push into the playback buffer) is not part of the        *)
(* sources at hand; it is modelled from the specification.                 *)
(*                                                                         *)
(* The session flags are bitfields of one storage word: a write of one of  *)
(* them loads the word, changes the bit and stores the word.  The frame    *)
(* tick writes playback_active under playback_mutex, the command path      *)
(* writes the pause flag under the session mutex, so the load and the      *)
(* store of such a write are two steps, and steps of the other thread can  *)
(* fall between them.                                                      *)
(***************************************************************************)
EXTENDS Integers, Sequences, FiniteSets, TLC

(***************************************************************************)
(* Bounds of the model.                                                    *)
(***************************************************************************)
\* private_t records ever allocated over one call's life
MaxSessions == 2
\* records allocated over one call's life when one control thread runs the
\* whole command language
MaxStarts == 1
\* blocks the sink pushes over one session's life
MaxPushed == 18

(***************************************************************************)
(* Program constants.                                                      *)
(***************************************************************************)
AUDIO_FORMAT_L16 == 0
AUDIO_FORMAT_PCMU == 1
AUDIO_FORMAT_PCMA == 2
\* L16 @ 8 kHz, 20 ms = 160 samples * 2 bytes
l16_frame_size == 320
\* 100 ms warmup
warmup_threshold == l16_frame_size * 5
\* capacity of the playback buffer
PlaybackCapacity == 1920
\* the sink's messages are whole blocks of this many bytes
ChunkBytes == 160

SWITCH_STATUS_SUCCESS == "SWITCH_STATUS_SUCCESS"
SWITCH_STATUS_FALSE == "SWITCH_STATUS_FALSE"
SWITCH_STATUS_GENERR == "SWITCH_STATUS_GENERR"

(***************************************************************************)
(* Command-line tokens.  A token is a sequence of bytes; an ASCII byte is  *)
(* written as its character, a byte >= 0x80 as "x" and its hex value.      *)
(* The empty token is the empty sequence.  NULL (an argv slot past argc)   *)
(* is a value that is no token.                                            *)
(***************************************************************************)
NULL == <<"NULL">>
\* cmd == NULL: there is no line to split; as a command line it is written
\* as the one slot that holds NULL
NoCmd == <<NULL>>

UpperChars == <<"A","B","C","D","E","F","G","H","I","J","K","L","M",
                "N","O","P","Q","R","S","T","U","V","W","X","Y","Z">>
LowerChars == <<"a","b","c","d","e","f","g","h","i","j","k","l","m",
                "n","o","p","q","r","s","t","u","v","w","x","y","z">>
DigitChars == <<"0","1","2","3","4","5","6","7","8","9">>

tolower(c) ==
    IF \E i \in 1..26 : UpperChars[i] = c
    THEN LowerChars[CHOOSE i \in 1..26 : UpperChars[i] = c]
    ELSE c

\* strcmp(a, b) == 0
strcmp0(a, b) == a = b

\* strcasecmp(a, b) == 0
strcasecmp0(a, b) ==
    /\ Len(a) = Len(b)
    /\ \A i \in 1..Len(a) : tolower(a[i]) = tolower(b[i])

isdigit(c) == \E i \in 1..10 : DigitChars[i] = c
DigitVal(c) == (CHOOSE i \in 1..10 : DigitChars[i] = c) - 1

\* isspace in the "C" locale; the vertical tab is the byte 0x0B
isspace(c) == c \in {" ", "\t", "\n", "\r", "\f", "x0B"}

RECURSIVE SkipSpace(_, _)
SkipSpace(s, i) == IF i <= Len(s) /\ isspace(s[i]) THEN SkipSpace(s, i + 1) ELSE i

\* a long is 64 bits, kept as four 16-bit limbs, the lowest first; an int
\* is 32 bits
LimbBase == 65536
\* the magnitude 0 of strtol's accumulator; sat: it has passed 2^63 - 1
ZeroLong == [l |-> <<0, 0, 0, 0>>, sat |-> FALSE]

\* acc * 10 + d on the magnitude, saturating
LongMulAdd(acc, d) ==
    LET t1 == acc.l[1] * 10 + d
        t2 == acc.l[2] * 10 + (t1 \div LimbBase)
        t3 == acc.l[3] * 10 + (t2 \div LimbBase)
        t4 == acc.l[4] * 10 + (t3 \div LimbBase)
    IN  IF acc.sat \/ t4 >= LimbBase \div 2
        THEN [l |-> <<0, 0, 0, 0>>, sat |-> TRUE]
        ELSE [l |-> <<t1 % LimbBase, t2 % LimbBase, t3 % LimbBase, t4>>, sat |-> FALSE]

\* the int whose 32 bits are the limbs hi, lo
IntOfLimbs(hi, lo) ==
    IF hi < LimbBase \div 2 THEN hi * LimbBase + lo ELSE (hi - LimbBase) * LimbBase + lo

\* (int) of the long +magnitude or -magnitude: LONG_MAX gives -1, LONG_MIN 0
LongToInt(acc, negative) ==
    IF acc.sat THEN (IF negative THEN 0 ELSE -1)
    ELSE IF ~negative THEN IntOfLimbs(acc.l[2], acc.l[1])
    ELSE LET lo == (LimbBase - acc.l[1]) % LimbBase
             hi == IF acc.l[1] = 0 THEN (LimbBase - acc.l[2]) % LimbBase
                   ELSE LimbBase - 1 - acc.l[2]
         IN IntOfLimbs(hi, lo)

\* the decimal digits of s from place i on, accumulated as strtol does
RECURSIVE AtoiDigits(_, _, _)
AtoiDigits(s, i, acc) ==
    IF i > Len(s) \/ ~isdigit(s[i])
    THEN acc
    ELSE AtoiDigits(s, i + 1, LongMulAdd(acc, DigitVal(s[i])))

\* atoi, which is (int) strtol(s, NULL, 10): white space, an optional sign,
\* then the leading decimal digits; 0 if there are none.  A value that does
\* not fit in an int is undefined for atoi; the C library at hand keeps the
\* low 32 bits of the long.
atoi(s) ==
    LET i == SkipSpace(s, 1) IN
    IF i > Len(s) THEN 0
    ELSE IF s[i] = "-" THEN LongToInt(AtoiDigits(s, i + 1, ZeroLong), TRUE)
    ELSE IF s[i] = "+" THEN LongToInt(AtoiDigits(s, i + 1, ZeroLong), FALSE)
    ELSE LongToInt(AtoiDigits(s, i, ZeroLong), FALSE)

\* the C remainder a % b for b > 0: the sign follows the dividend
CRem(a, b) == IF a >= 0 \/ a % b = 0 THEN a % b ELSE (a % b) - b

T_start == <<"s","t","a","r","t">>
T_START == <<"S","T","A","R","T">>
T_stop == <<"s","t","o","p">>
T_STOP == <<"S","T","O","P">>
T_pause == <<"p","a","u","s","e">>
T_resume == <<"r","e","s","u","m","e">>
T_send_text == <<"s","e","n","d","_","t","e","x","t">>
T_graceful == <<"g","r","a","c","e","f","u","l","-","s","h","u","t","d","o","w","n">>
T_bogus == <<"b","o","g","u","s">>
T_mono == <<"m","o","n","o">>
T_mixed == <<"m","i","x","e","d">>
T_stereo == <<"s","t","e","r","e","o">>
T_quad == <<"q","u","a","d">>
T_pcmu == <<"p","c","m","u">>
T_PCMU == <<"P","C","M","U">>
T_ulaw == <<"u","l","a","w">>
T_mulaw == <<"m","u","l","a","w">>
T_pcma == <<"p","c","m","a">>
T_alaw == <<"a","l","a","w">>
T_l16 == <<"l","1","6">>
T_linear == <<"l","i","n","e","a","r">>
T_pcm == <<"p","c","m">>
T_8k == <<"8","k">>
T_16k == <<"1","6","k">>
T_uuid == <<"c","1">>
T_nouuid == <<"c","9">>
T_wss == <<"w","s","s",":","/","/","h">>
T_ws == <<"w","s",":","/","/","h">>
T_http == <<"h","t","t","p",":","/","/","h">>
\* "hi", and U+00E9 as the two bytes C3 A9
T_hi == <<"h","i">>
T_eacute == <<"xC3","xA9">>
\* a lone 0xFF, and a lead byte with no continuation
T_badFF == <<"xFF">>
T_badC3 == <<"h","xC3">>


(***************************************************************************)
(* Glue predicates on tokens.                                              *)
(***************************************************************************)
Lead2Bytes == {"xC3"}
ContBytes == {"xA9"}
HighBytes == Lead2Bytes \cup ContBytes \cup {"xFF"}

RECURSIVE Utf8From(_, _)
Utf8From(s, i) ==
    IF i > Len(s) THEN TRUE
    ELSE IF s[i] \notin HighBytes THEN Utf8From(s, i + 1)
    ELSE IF s[i] \in Lead2Bytes
         THEN /\ i + 1 <= Len(s)
              /\ s[i + 1] \in ContBytes
              /\ Utf8From(s, i + 2)
    ELSE FALSE

\* is_valid_utf8(text) == SWITCH_STATUS_SUCCESS
is_valid_utf8(s) == Utf8From(s, 1)

HasPrefix(s, p) == Len(s) >= Len(p) /\ SubSeq(s, 1, Len(p)) = p

\* validate_ws_uri: a ws:// or wss:// address with a host
validate_ws_uri(s) ==
    \/ HasPrefix(s, <<"w","s",":","/","/">>) /\ Len(s) > 5
    \/ HasPrefix(s, <<"w","s","s",":","/","/">>) /\ Len(s) > 6

(***************************************************************************)
(* stream_function: reading the argument vector.                           *)
(***************************************************************************)
\* argv[k] of the C code; a slot past argc is NULL
Arg(argv, k) == IF k < Len(argv) THEN argv[k + 1] ELSE NULL

IsMulaw(tok) == strcasecmp0(tok, T_pcmu) \/ strcasecmp0(tok, T_ulaw) \/ strcasecmp0(tok, T_mulaw)
IsAlaw(tok) == strcasecmp0(tok, T_pcma) \/ strcasecmp0(tok, T_alaw)
IsLinear(tok) == strcasecmp0(tok, T_l16) \/ strcasecmp0(tok, T_linear) \/ strcasecmp0(tok, T_pcm)

\* the format parameter argv[5]; AUDIO_FORMAT_L16 when absent or not an encoding
ParseAudioFormat(argv) ==
    IF Len(argv) > 5
    THEN IF IsMulaw(Arg(argv, 5)) THEN AUDIO_FORMAT_PCMU
         ELSE IF IsAlaw(Arg(argv, 5)) THEN AUDIO_FORMAT_PCMA
         ELSE AUDIO_FORMAT_L16
    ELSE AUDIO_FORMAT_L16

\* metadata: argv[6] after an encoding token, argv[5] itself otherwise
ParseMetadata(argv) ==
    IF Len(argv) > 5
    THEN IF IsMulaw(Arg(argv, 5)) \/ IsAlaw(Arg(argv, 5)) \/ IsLinear(Arg(argv, 5))
         THEN (IF Len(argv) > 6 THEN Arg(argv, 6) ELSE NULL)
         ELSE Arg(argv, 5)
    ELSE NULL

\* the mix type argv[3]: mono, mixed or stereo, compared case-sensitively
\* with strcmp; strcmp on a NULL argv[3] is undefined and the build at hand
\* dies of it (SIGSEGV); an empty argv[3] is an invalid mix type
ValidMixType(tok) ==
    IF tok = NULL THEN "null_deref"
    ELSE IF strcmp0(tok, T_mixed) \/ strcmp0(tok, T_stereo) \/ strcmp0(tok, T_mono) THEN "ok"
    ELSE "invalid_mix_type"

\* the sampling rate argv[4]; 8000 when absent
ParseSampling(argv) ==
    IF Len(argv) > 4
    THEN IF strcmp0(Arg(argv, 4), T_16k) THEN 16000
         ELSE IF strcmp0(Arg(argv, 4), T_8k) THEN 8000
         ELSE atoi(Arg(argv, 4))
    ELSE 8000

\* the rate test that guards start_capture: "ok" or the log line's reason
RatePolicy(sampling, audio_format) ==
    IF CRem(sampling, 8000) # 0 THEN "invalid_sample_rate"
    ELSE IF audio_format # AUDIO_FORMAT_L16 /\ sampling # 8000 THEN "g711_rate"
    ELSE "ok"

\* why a start is turned away before start_capture, or "ok"
StartValidation(argv) ==
    IF ParseMetadata(argv) # NULL /\ ~is_valid_utf8(ParseMetadata(argv)) THEN "invalid_utf8"
    ELSE IF ValidMixType(Arg(argv, 3)) # "ok" THEN ValidMixType(Arg(argv, 3))
    ELSE IF ~validate_ws_uri(Arg(argv, 2)) THEN "invalid_uri"
    ELSE RatePolicy(ParseSampling(argv), ParseAudioFormat(argv))


(***************************************************************************)
(* stream_function: what a command line asks for.  act is the branch the   *)
(* line ends in once the call is located:                                  *)
(*   usage         the usage line                                          *)
(*   goto_done     a validation that leaves by goto done                   *)
(*   fail          a validation that falls through to the result line      *)
(*   do_stop, do_pauseresume, send_text, start_capture                     *)
(*   unsupported   no branch takes the command                             *)
(*   crash         the process is killed inside the branch                 *)
(*   abort         assert(cmd) fails: the process is killed before the     *)
(*                 usage test and before the call is located               *)
(***************************************************************************)
Req(act, reason) ==
    [act |-> act, reason |-> reason, known |-> FALSE, text |-> NULL,
     pause |-> 0, sampling |-> 0, audio_format |-> 0]

\* the stop branch
StopBranch_NoUtf8Check(argv) ==
    [Req("do_stop", "none") EXCEPT !.text = IF Len(argv) > 2 THEN Arg(argv, 2) ELSE NULL]

StopBranch(argv) ==
    IF Len(argv) > 2 /\ ~is_valid_utf8(Arg(argv, 2))
    THEN Req("goto_done", "invalid_utf8")
    ELSE [Req("do_stop", "none") EXCEPT !.text = IF Len(argv) > 2 THEN Arg(argv, 2) ELSE NULL]

\* the send_text branch
SendTextBranch(argv) ==
    IF Len(argv) < 3 THEN Req("goto_done", "missing_text")
    ELSE IF ~is_valid_utf8(Arg(argv, 2)) THEN Req("goto_done", "invalid_utf8")
    ELSE [Req("send_text", "none") EXCEPT !.text = Arg(argv, 2)]

\* the start branch
StartBranch(argv) ==
    LET v == StartValidation(argv) IN
    IF v = "null_deref" THEN Req("crash", v)
    ELSE IF v \in {"invalid_utf8", "invalid_mix_type"} THEN Req("goto_done", v)
    ELSE IF v # "ok" THEN Req("fail", v)
    ELSE [Req("start_capture", "none") EXCEPT
            !.sampling = ParseSampling(argv),
            !.audio_format = ParseAudioFormat(argv)]

ParseCommand(argv) ==
    IF argv = NoCmd THEN Req("abort", "assert_cmd")
    ELSE IF Len(argv) < 2 \/ (strcmp0(Arg(argv, 1), T_start) /\ Len(argv) < 4)
    THEN Req("usage", "usage")
    ELSE [(IF strcasecmp0(Arg(argv, 1), T_stop) THEN StopBranch(argv)
           ELSE IF strcasecmp0(Arg(argv, 1), T_pause)
                THEN [Req("do_pauseresume", "none") EXCEPT !.pause = 1]
           ELSE IF strcasecmp0(Arg(argv, 1), T_resume) THEN Req("do_pauseresume", "none")
           ELSE IF strcasecmp0(Arg(argv, 1), T_send_text) THEN SendTextBranch(argv)
           ELSE IF strcasecmp0(Arg(argv, 1), T_start) THEN StartBranch(argv)
           ELSE Req("unsupported", "unsupported_cmd"))
          EXCEPT !.known = (Arg(argv, 0) = T_uuid)]

(***************************************************************************)
(* Command lines a control thread may dispatch.                            *)
(***************************************************************************)
Texts == {T_hi, T_eacute, T_badFF, T_badC3}
\* texts of stop and metadata of start
ShortTexts == {T_hi, T_badFF}
RateTokens == {<<"8","0","0","0">>, <<"1","2","0","0","0">>, <<"0">>,
               <<"-","8","0","0","0">>, <<"a","b","c">>,
               <<"\t","8","0","0","0">>,
               <<"4","2","9","4","9","7","5","2","9","6">>}
G711RateTokens == {T_16k, <<"8","0","0","0">>, <<"1","2","0","0","0">>}
Layouts == {T_mono, T_mixed, T_stereo, T_quad}
Uris == {T_wss, T_ws, T_http}

StartCommands ==
    {<<T_uuid, T_start, T_wss, l>> : l \in Layouts}
    \cup {<<T_uuid, T_start, u, T_mono>> : u \in Uris}
    \cup {<<T_uuid, T_start, T_wss, T_mono, r>> : r \in RateTokens}
    \cup {<<T_uuid, T_start, T_wss, T_stereo, r, T_pcmu>> : r \in G711RateTokens}
    \cup {<<T_uuid, T_start, T_wss, T_stereo, <<"1","2","0","0","0">>, T_pcma>>}
    \cup {<<T_uuid, T_start, T_wss, T_mixed, T_8k, e>> : e \in {T_PCMU, T_mulaw, T_l16}}
    \cup {<<T_uuid, T_start, T_wss, T_mono, T_8k, m>> : m \in ShortTexts}
    \cup {<<T_uuid, T_start, T_wss, T_mixed, T_8k, T_pcmu, T_badFF>>}
    \cup {<<T_uuid, T_start, T_wss, T_quad, T_8k, T_pcmu, T_badFF>>,
          <<T_uuid, T_start, T_http, T_mono, <<"1","2","0","0","0">>, T_pcmu>>}

Commands ==
    StartCommands
    \cup {<<T_uuid, T_stop>>, <<T_uuid, T_STOP>>}
    \cup {<<T_uuid, T_stop, x>> : x \in ShortTexts}
    \cup {<<T_uuid, T_pause>>, <<T_uuid, T_resume>>, <<T_uuid, T_graceful>>, <<T_uuid, T_bogus>>}
    \cup {<<T_uuid, T_send_text>>}
    \cup {<<T_uuid, T_send_text, x>> : x \in Texts}
    \cup {NoCmd, << >>, <<T_uuid>>, <<T_uuid, T_start, T_wss>>}
    \cup {<<T_uuid, T_START, T_wss>>, <<T_uuid, T_start, T_wss, << >>>>}
    \cup {<<T_nouuid, T_stop>>, <<T_nouuid, T_start, T_wss, T_mono>>}

\* what each command line asks for
Parsed == [argv \in Commands |-> ParseCommand(argv)]

\* the start and stop commands that two control threads race with
RaceCommands == {<<T_uuid, T_start, T_wss, T_mono>>, <<T_uuid, T_stop>>}

(***************************************************************************)
(* State.                                                                  *)
(***************************************************************************)
\* control threads running uuid_audio_stream commands
Threads == {"c1", "c2"}
\* private_t records, in allocation order
SessionIds == 1..MaxSessions

VARIABLES
    pc,           \* control thread -> its place in the command it runs
    loc,          \* control thread -> the command line it runs and the record it cleans up
    out,          \* control thread -> what the finished command wrote and returned
    callAlive,    \* the call leg exists (switch_core_session_locate finds it)
    chanPrivate,  \* switch_channel_get_private(channel, MY_BUG_NAME): 0 or a bug
    taps,         \* the media bugs attached to the call, each named by its private_t
    tech,         \* private_t records
    nalloc,       \* records allocated so far
    mpc,          \* media thread: its place in capture_callback
    mcur,         \* media thread: the bug whose callback runs (0: none)
    mloc,         \* media thread: channel_closing, the record cleanup works on, locks held
    tick,         \* what the READ callback in progress did
    playback_buffer  \* the bytes of one session's playback buffer, oldest first

vars == <<pc, loc, out, callAlive, chanPrivate, taps, tech, nalloc, mpc, mcur, mloc, tick,
          playback_buffer>>

\* the flags of struct private_data that the model keeps; they are bitfields
\* of one storage word (codec_initialized, the fifth, is written only before
\* the bug is attached)
FlagNames == {"audio_paused", "close_requested", "cleanup_started", "playback_active"}
\* a register that holds no copy of the flags word
NoWord == [f \in FlagNames |-> FALSE]

\* a write of one bitfield: load the storage word, change the bit, store the
\* word
LoadWord(r) == [f \in FlagNames |-> r[f]]
SetBit(w, f, v) == [w EXCEPT ![f] = v]
StoreWord(r, w) == [r EXCEPT !.audio_paused = w.audio_paused,
                             !.close_requested = w.close_requested,
                             !.cleanup_started = w.cleanup_started,
                             !.playback_active = w.playback_active]

\* nested_closing: the channel_closing of the CLOSE callback the command's
\* detach ran (-1: it ran none); word: the thread's copy of the flags word
\* during a read-modify-write
NoLoc == [argv |-> << >>, tgt |-> 0, channel_closing |-> 0, nested_closing |-> -1,
          word |-> NoWord]
NoOut == [status |-> "none", reason |-> "none", markers |-> << >>, sent |-> FALSE]
NoTick == [drained |-> 0, injected |-> FALSE, forwarded |-> FALSE, log |-> "none",
           ret |-> "none"]
\* held: the mutexes the media thread held when it last read a session flag
NoMloc == [channel_closing |-> 0, tgt |-> 0, held |-> {}, word |-> NoWord]
\* a playback buffer as switch_buffer_create_dynamic leaves it: data holds the
\* buffered bytes in blocks of ChunkBytes, each named by its place in the
\* sink's stream; pushed and tossed count the blocks written and discarded
EmptyBuffer == [data |-> << >>, pushed |-> 0, tossed |-> 0]

\* a private_t that stream_session_init has not yet allocated
FreeTech == [state |-> "free", audio_paused |-> FALSE, close_requested |-> FALSE,
             cleanup_started |-> FALSE, playback_active |-> FALSE, inuse |-> 0,
             claims |-> 0, released |-> 0]

Init ==
    /\ pc = [t \in Threads |-> "idle"]
    /\ loc = [t \in Threads |-> NoLoc]
    /\ out = [t \in Threads |-> NoOut]
    /\ callAlive = TRUE
    /\ chanPrivate = 0
    /\ taps = {}
    /\ tech = [s \in SessionIds |-> FreeTech]
    /\ nalloc = 0
    /\ mpc = "idle"
    /\ mcur = 0
    /\ mloc = NoMloc
    /\ tick = NoTick
    /\ playback_buffer = EmptyBuffer

Live(s) == tech[s].state = "live"

(***************************************************************************)
(* The glue's session operations, on a world w = [tech, chan, taps].       *)
(***************************************************************************)
\* closing: the channel_closing of the last CLOSE callback run inside (-1: none)
World == [tech |-> tech, chan |-> chanPrivate, taps |-> taps, closing |-> -1]

\* the session of the call is attached and nobody has claimed its cleanup
Claimable(w) == w.chan # 0 /\ ~w.tech[w.chan].cleanup_started

\* the check-and-set of cleanup_started under the session mutex
ClaimCleanup_NoSet(w, s) == [w EXCEPT !.tech[s].claims = @ + 1]

ClaimCleanup(w, s) ==
    [w EXCEPT !.tech[s].cleanup_started = TRUE, !.tech[s].claims = @ + 1]

\* free the ring buffer and the session record, which keeps no flag but
\* cleanup_started; the call has no attachment
ReleaseSession(w, s) ==
    [w EXCEPT !.tech[s].state = "destroyed",
              !.tech[s].inuse = 0,
              !.tech[s].playback_active = FALSE,
              !.tech[s].audio_paused = FALSE,
              !.tech[s].close_requested = FALSE,
              !.tech[s].released = @ + 1,
              !.chan = IF @ = s THEN 0 ELSE @]

RECURSIVE DetachTap(_, _)
RECURSIVE stream_session_cleanup_nested(_, _)

ChannelClosing_RequestedIsOne(r) == IF r.close_requested THEN 1 ELSE 0

\* SWITCH_ABC_TYPE_CLOSE: channel_closing = tech_pvt->close_requested ? 0 : 1
ChannelClosing(r) == IF r.close_requested THEN 0 ELSE 1

\* capture_callback, SWITCH_ABC_TYPE_CLOSE, run to its end within another
\* cleanup: s is the bug being closed
capture_callback_CLOSE_nested(w, s) ==
    stream_session_cleanup_nested(
        [w EXCEPT !.closing = ChannelClosing(w.tech[s])],
        ChannelClosing(w.tech[s]))

\* switch_core_media_bug_remove: unlink the bug and run its CLOSE callback
DetachTap(w, s) ==
    IF s \in w.taps
    THEN capture_callback_CLOSE_nested([w EXCEPT !.taps = @ \ {s}], s)
    ELSE w

\* stream_session_cleanup entered from a CLOSE callback that a detach raised
stream_session_cleanup_nested(w, channelIsClosing) ==
    IF ~Claimable(w) THEN w
    ELSE LET s == w.chan
             w1 == ClaimCleanup(w, s)
             w2 == IF channelIsClosing = 0 THEN DetachTap(w1, s) ELSE w1
         IN ReleaseSession(w2, s)

\* the second half of stream_session_cleanup, by the path that claimed s
FinishCleanup(w, s, channelIsClosing) ==
    ReleaseSession(IF channelIsClosing = 0 THEN DetachTap(w, s) ELSE w, s)

SetWorld(w) ==
    /\ tech' = w.tech
    /\ chanPrivate' = w.chan
    /\ taps' = w.taps

\* a record as stream_session_init leaves it
NewTech == [FreeTech EXCEPT !.state = "live"]

(***************************************************************************)
(* stream_function: a command's end.                                       *)
(***************************************************************************)
Finish(t, status, reason, markers, sent) ==
    /\ pc' = [pc EXCEPT ![t] = "done"]
    /\ out' = [out EXCEPT ![t] = [status |-> status, reason |-> reason,
                                  markers |-> markers, sent |-> sent]]

\* the result line written from status
ResultMarker(status) ==
    IF status = SWITCH_STATUS_SUCCESS THEN <<"+OK Success">> ELSE <<"-ERR Operation Failed">>

\* fall through to the result line
Report(t, status, reason, sent) ==
    Finish(t, status, reason, ResultMarker(status), sent)

\* goto done: nothing is written
GotoDone(t, reason) ==
    Finish(t, SWITCH_STATUS_FALSE, reason, << >>, FALSE)

\* the usage line, then goto done
Usage(t) ==
    Finish(t, SWITCH_STATUS_FALSE, "usage", <<"-USAGE">>, FALSE)

\* the process is killed in thread t: nothing is written, nothing returns
Crash(t, reason) ==
    /\ pc' = [pc EXCEPT ![t] = "crashed"]
    /\ out' = [out EXCEPT ![t] = [NoOut EXCEPT !.status = "killed", !.reason = reason]]

\* the process has not been killed
Running == \A t \in Threads : pc[t] # "crashed"

\* a control thread is between the load and the store of a flag write, which
\* it makes under the session mutex
SessionMutexHeld == \E t \in Threads : pc[t] \in {"flag_store", "word_store"}

\* the places of a frame tick at which it holds playback_mutex
WordLocked == {"word_arm", "word_drain", "word_pause"}
\* the places of the media thread inside a READ callback
InReadCallback == {"read_body", "read_frame", "read_return"} \cup WordLocked

(***************************************************************************)
(* Commands on a control thread.                                           *)
(***************************************************************************)
MediaUnchanged == UNCHANGED <<mpc, mcur, mloc, tick, playback_buffer>>
SessionsUnchanged == UNCHANGED <<chanPrivate, taps, tech, nalloc>>

stream_session_cleanup_BusyFails(t, text, channelIsClosing) ==
    IF chanPrivate = 0
    THEN /\ Report(t, SWITCH_STATUS_FALSE, "no_bug", FALSE)
         /\ SessionsUnchanged
    ELSE IF ~Claimable(World)
    THEN /\ Report(t, SWITCH_STATUS_FALSE, "cleanup_in_progress", FALSE)
         /\ SessionsUnchanged
    ELSE /\ SetWorld(ClaimCleanup(World, chanPrivate))
         /\ pc' = [pc EXCEPT ![t] = "cleanup"]
         /\ UNCHANGED <<out, nalloc>>

\* stream_session_cleanup up to its check-and-set: no attachment fails, a
\* cleanup already claimed succeeds and does nothing, otherwise claim it
stream_session_cleanup(t, text, channelIsClosing) ==
    IF chanPrivate = 0
    THEN /\ Report(t, SWITCH_STATUS_FALSE, "no_bug", FALSE)
         /\ SessionsUnchanged
    ELSE IF ~Claimable(World)
    THEN /\ Report(t, SWITCH_STATUS_SUCCESS, "cleanup_in_progress", FALSE)
         /\ SessionsUnchanged
    ELSE /\ SetWorld(ClaimCleanup(World, chanPrivate))
         /\ pc' = [pc EXCEPT ![t] = "cleanup"]
         /\ UNCHANGED <<out, nalloc>>

do_stop(t, text) ==
    stream_session_cleanup(t, text, 0)

\* stream_session_pauseresume writes the pause flag of the attached session
\* whose cleanup has not started
PauseResumeWrites == chanPrivate # 0 /\ ~tech[chanPrivate].cleanup_started

\* the flags word stream_session_pauseresume has loaded, with the pause bit
\* changed
PauseResumeWord(pause) ==
    SetBit(LoadWord(tech[chanPrivate]), "audio_paused", pause = 1)

\* stream_session_pauseresume up to the store of its write: under the
\* session mutex it tests the attachment and cleanup_started and loads the
\* flags word (into loc[t].word, by stream_function)
stream_session_pauseresume(t, pause) ==
    /\ SessionsUnchanged
    /\ IF chanPrivate = 0
       THEN Report(t, SWITCH_STATUS_FALSE, "no_bug", FALSE)
       ELSE IF tech[chanPrivate].cleanup_started
       THEN Report(t, SWITCH_STATUS_FALSE, "cleanup_in_progress", FALSE)
       ELSE /\ pc' = [pc EXCEPT ![t] = "flag_store"]
            /\ UNCHANGED out

\* stream_session_pauseresume, the store of its write: the word goes back
\* with the pause bit changed, the session mutex is released and the command
\* reports success
PauseResumeStore(t) ==
    /\ Running
    /\ pc[t] = "flag_store"
    /\ tech' = [tech EXCEPT ![loc[t].tgt] = StoreWord(@, loc[t].word)]
    /\ Report(t, SWITCH_STATUS_SUCCESS, "ok", FALSE)
    /\ MediaUnchanged
    /\ UNCHANGED <<loc, callAlive, chanPrivate, taps, nalloc>>

do_pauseresume(t, pause) ==
    stream_session_pauseresume(t, pause)

\* stream_session_send_text: forward the text unless cleanup has started
stream_session_send_text(t, text) ==
    IF tech[chanPrivate].cleanup_started
    THEN Report(t, SWITCH_STATUS_FALSE, "cleanup_in_progress", FALSE)
    ELSE Report(t, SWITCH_STATUS_SUCCESS, "ok", TRUE)

send_text_NoBugCheck(t, text) ==
    /\ IF chanPrivate # 0
       THEN stream_session_send_text(t, text)
       ELSE Report(t, SWITCH_STATUS_SUCCESS, "ok", TRUE)
    /\ SessionsUnchanged

send_text(t, text) ==
    /\ IF chanPrivate # 0
       THEN stream_session_send_text(t, text)
       ELSE Report(t, SWITCH_STATUS_FALSE, "no_bug", FALSE)
    /\ SessionsUnchanged

\* start_capture up to switch_channel_pre_answer
start_capture(t, sampling, audio_format) ==
    /\ SessionsUnchanged
    /\ IF chanPrivate # 0
       THEN Report(t, SWITCH_STATUS_FALSE, "already_attached", FALSE)
       ELSE \/ Report(t, SWITCH_STATUS_FALSE, "not_pre_answered", FALSE)
            \/ /\ pc' = [pc EXCEPT ![t] = "start_init"]
               /\ UNCHANGED out

\* start_capture, stream_session_init: read_codec->implementation is read
\* for its argument, which kills the process when the session has no read
\* codec; the glue allocates the record or fails
StartInit(t) ==
    /\ Running
    /\ pc[t] = "start_init"
    /\ MediaUnchanged
    /\ UNCHANGED callAlive
    /\ \E read_codec \in BOOLEAN :
         IF ~read_codec
         THEN /\ Crash(t, "null_deref")
              /\ SessionsUnchanged
              /\ UNCHANGED loc
         ELSE \/ /\ Report(t, SWITCH_STATUS_FALSE, "init_failed", FALSE)
                 /\ SessionsUnchanged
                 /\ UNCHANGED loc
              \/ /\ nalloc < MaxSessions
                 /\ nalloc' = nalloc + 1
                 /\ tech' = [tech EXCEPT ![nalloc + 1] = NewTech]
                 /\ loc' = [loc EXCEPT ![t].tgt = nalloc + 1]
                 /\ pc' = [pc EXCEPT ![t] = "start_bug_add"]
                 /\ UNCHANGED <<out, chanPrivate, taps>>

\* start_capture, switch_core_media_bug_add: its status is returned as it is
\* when it fails; from its success on the media thread calls the bug
StartBugAdd(t) ==
    /\ Running
    /\ pc[t] = "start_bug_add"
    /\ MediaUnchanged
    /\ UNCHANGED <<callAlive, loc, chanPrivate, tech, nalloc>>
    /\ \/ /\ Report(t, SWITCH_STATUS_GENERR, "bug_add_failed", FALSE)
          /\ UNCHANGED taps
       \/ /\ taps' = taps \cup {loc[t].tgt}
          /\ pc' = [pc EXCEPT ![t] = "start_set_private"]
          /\ UNCHANGED out

\* start_capture, switch_channel_set_private: the bug becomes the channel's
\* attachment
StartSetPrivate(t) ==
    /\ Running
    /\ pc[t] = "start_set_private"
    /\ chanPrivate' = loc[t].tgt
    /\ Report(t, SWITCH_STATUS_SUCCESS, "ok", FALSE)
    /\ MediaUnchanged
    /\ UNCHANGED <<callAlive, loc, taps, tech, nalloc>>

\* records that starts in flight are about to allocate
PendingStarts == Cardinality({u \in Threads : pc[u] = "start_init"})

\* switch_core_session_locate(argv[0])
switch_core_session_locate(known) == callAlive /\ known

\* SWITCH_STANDARD_API(stream_function) on the command line argv
stream_function(t, argv) ==
    LET rq == Parsed[argv] IN
    /\ Running
    /\ pc[t] = "idle"
    \* tgt, channel_closing: what do_stop hands to stream_session_cleanup;
    \* tgt, word: the record and the word stream_session_pauseresume writes
    /\ loc' = [loc EXCEPT ![t] = [argv |-> argv,
                                  tgt |-> IF rq.act \in {"do_stop", "do_pauseresume"}
                                          THEN chanPrivate ELSE 0,
                                  channel_closing |-> 0,
                                  nested_closing |-> -1,
                                  word |-> IF /\ rq.act = "do_pauseresume"
                                              /\ switch_core_session_locate(rq.known)
                                              /\ PauseResumeWrites
                                           THEN PauseResumeWord(rq.pause)
                                           ELSE NoWord]]
    /\ MediaUnchanged
    /\ UNCHANGED callAlive
    /\ IF rq.act = "abort"
       THEN Crash(t, rq.reason) /\ SessionsUnchanged
       ELSE IF rq.act = "usage"
       THEN Usage(t) /\ SessionsUnchanged
       ELSE IF ~switch_core_session_locate(rq.known)
       THEN Report(t, SWITCH_STATUS_FALSE, "no_session", FALSE) /\ SessionsUnchanged
       ELSE IF rq.act = "crash"
       THEN Crash(t, rq.reason) /\ SessionsUnchanged
       ELSE IF rq.act = "goto_done"
       THEN GotoDone(t, rq.reason) /\ SessionsUnchanged
       ELSE IF rq.act = "do_stop" THEN do_stop(t, rq.text)
       ELSE IF rq.act = "do_pauseresume" THEN do_pauseresume(t, rq.pause)
       ELSE IF rq.act = "send_text" THEN send_text(t, rq.text)
       ELSE IF rq.act = "start_capture" THEN start_capture(t, rq.sampling, rq.audio_format)
       ELSE Report(t, SWITCH_STATUS_FALSE, rq.reason, FALSE) /\ SessionsUnchanged

\* the claimed cleanup's release: detach the tap (after the READ callback in
\* flight ends), free the buffer and the record, report
CleanupRelease(t) ==
    /\ Running
    /\ pc[t] = "cleanup"
    /\ loc[t].tgt \in taps => mpc \notin InReadCallback
    /\ LET w == FinishCleanup(World, loc[t].tgt, loc[t].channel_closing) IN
       /\ SetWorld(w)
       /\ loc' = [loc EXCEPT ![t].nested_closing = w.closing]
    /\ Report(t, SWITCH_STATUS_SUCCESS, "ok", Parsed[loc[t].argv].text # NULL)
    /\ MediaUnchanged
    /\ UNCHANGED <<callAlive, nalloc>>

\* the caller has read the command's output
Return(t) ==
    /\ Running
    /\ pc[t] = "done"
    /\ pc' = [pc EXCEPT ![t] = "idle"]
    /\ out' = [out EXCEPT ![t] = NoOut]
    /\ loc' = [loc EXCEPT ![t] = NoLoc]
    /\ UNCHANGED <<callAlive, chanPrivate, taps, tech, nalloc, mpc, mcur, mloc, tick>>
    /\ UNCHANGED playback_buffer

(***************************************************************************)
(* capture_callback on the media thread.                                   *)
(***************************************************************************)
ControlUnchanged == UNCHANGED <<pc, loc, out, playback_buffer>>

\* the playback block of SWITCH_ABC_TYPE_READ on record r: the record after
\* it and the bytes read from the buffer
PlaybackBlock_PartialRead(r) ==
    LET available == r.inuse
        warm == ~r.playback_active /\ available >= warmup_threshold
        armed == r.playback_active \/ warm
        n == IF available < l16_frame_size THEN available ELSE l16_frame_size
    IN  IF armed /\ available > 0
        THEN [rec |-> [r EXCEPT !.playback_active = armed,
                                !.inuse = available - n],
              read |-> n,
              log |-> IF warm THEN "Streaming started" ELSE "none"]
        ELSE IF armed /\ available = 0
        THEN [rec |-> [r EXCEPT !.playback_active = FALSE], read |-> 0,
              log |-> "Buffer empty, pausing"]
        ELSE [rec |-> [r EXCEPT !.playback_active = armed], read |-> 0, log |-> "none"]

PlaybackBlock_NoRearm(r) ==
    LET available == r.inuse
        warm == ~r.playback_active /\ available >= warmup_threshold
        armed == r.playback_active \/ warm
    IN  IF armed /\ available >= l16_frame_size
        THEN [rec |-> [r EXCEPT !.playback_active = armed,
                                !.inuse = available - l16_frame_size],
              read |-> l16_frame_size,
              log |-> IF warm THEN "Streaming started" ELSE "none"]
        ELSE IF armed /\ available = 0
        THEN [rec |-> [r EXCEPT !.playback_active = armed], read |-> 0,
              log |-> "Buffer empty, pausing"]
        ELSE [rec |-> [r EXCEPT !.playback_active = armed], read |-> 0, log |-> "none"]

PlaybackBlock_PauseOnResidue(r) ==
    LET available == r.inuse
        warm == ~r.playback_active /\ available >= warmup_threshold
        armed == r.playback_active \/ warm
    IN  IF armed /\ available >= l16_frame_size
        THEN [rec |-> [r EXCEPT !.playback_active = armed,
                                !.inuse = available - l16_frame_size],
              read |-> l16_frame_size,
              log |-> IF warm THEN "Streaming started" ELSE "none"]
        ELSE IF armed /\ available < l16_frame_size
        THEN [rec |-> [r EXCEPT !.playback_active = FALSE], read |-> 0,
              log |-> "Buffer empty, pausing"]
        ELSE [rec |-> [r EXCEPT !.playback_active = armed], read |-> 0, log |-> "none"]

PlaybackBlock(r) ==
    LET available == r.inuse
        warm == ~r.playback_active /\ available >= warmup_threshold
        armed == r.playback_active \/ warm
    IN  IF armed /\ available >= l16_frame_size
        THEN [rec |-> [r EXCEPT !.playback_active = armed,
                                !.inuse = available - l16_frame_size],
              read |-> l16_frame_size,
              log |-> IF warm THEN "Streaming started" ELSE "none"]
        ELSE IF armed /\ available = 0
        THEN [rec |-> [r EXCEPT !.playback_active = FALSE], read |-> 0,
              log |-> "Buffer empty, pausing"]
        ELSE [rec |-> [r EXCEPT !.playback_active = armed], read |-> 0, log |-> "none"]

\* the close_requested test that opens SWITCH_ABC_TYPE_READ
ReadGuard(r) == r.close_requested

\* the platform unlinks bug s and enters its CLOSE callback, which reads
\* close_requested
EnterClose(s) ==
    /\ taps' = taps \ {s}
    /\ mcur' = s
    /\ mloc' = [NoMloc EXCEPT !.channel_closing = ChannelClosing(tech[s]), !.held = {}]
    /\ mpc' = "close_cleanup"

\* SWITCH_ABC_TYPE_READ, its guard: with close_requested set the callback
\* returns SWITCH_FALSE and does nothing else
ReadEnter(s) ==
    /\ Running
    /\ mpc = "idle"
    /\ callAlive
    /\ s \in taps
    /\ IF ReadGuard(tech[s])
       THEN /\ tick' = [NoTick EXCEPT !.ret = "SWITCH_FALSE"]
            /\ mpc' = "read_false"
       ELSE /\ tick' = NoTick
            /\ mpc' = "read_body"
    /\ mcur' = s
    /\ mloc' = [mloc EXCEPT !.held = {}]
    /\ ControlUnchanged
    /\ UNCHANGED <<callAlive, chanPrivate, taps, tech, nalloc>>

\* after a return of SWITCH_FALSE the platform prunes the bug: it unlinks
\* it and calls its CLOSE callback, unless the bug was removed meanwhile
PruneBug ==
    /\ Running
    /\ mpc = "read_false"
    /\ IF mcur \in taps
       THEN /\ EnterClose(mcur)
            /\ UNCHANGED tick
       ELSE /\ mpc' = "idle"
            /\ mcur' = 0
            /\ mloc' = NoMloc
            /\ tick' = NoTick
            /\ UNCHANGED taps
    /\ ControlUnchanged
    /\ UNCHANGED <<callAlive, chanPrivate, tech, nalloc>>

\* stream_frame: forward the inbound frame unless paused or cleaning up
stream_frame(r) == r.state = "live" /\ ~r.audio_paused /\ ~r.cleanup_started

\* what stream_frame returns: it keeps the bug, only close_requested ends
\* the invocations
stream_frame_return(r) == "SWITCH_TRUE"

\* SWITCH_ABC_TYPE_READ past its guard: the tick takes playback_mutex and
\* tests for the warmup (lines 51-58); to arm it loads the flags word for
\* the write of line 59
WordTickWarm ==
    /\ Running
    /\ mpc = "read_body"
    /\ IF ~tech[mcur].playback_active /\ PlaybackBlock(tech[mcur]).rec.playback_active
       THEN /\ mloc' = [mloc EXCEPT !.word =
                          SetBit(LoadWord(tech[mcur]), "playback_active", TRUE)]
            /\ mpc' = "word_arm"
       ELSE /\ mpc' = "word_drain"
            /\ UNCHANGED mloc
    /\ ControlUnchanged
    /\ UNCHANGED <<callAlive, chanPrivate, taps, tech, nalloc, mcur, tick>>

\* the tick stores the word with playback_active set and logs (lines 59-61)
WordTickArm ==
    /\ Running
    /\ mpc = "word_arm"
    /\ tech' = [tech EXCEPT ![mcur] = StoreWord(tech[mcur], mloc.word)]
    /\ tick' = [tick EXCEPT !.log = "Streaming started"]
    /\ mloc' = [mloc EXCEPT !.word = NoWord]
    /\ mpc' = "word_drain"
    /\ ControlUnchanged
    /\ UNCHANGED <<callAlive, chanPrivate, taps, nalloc, mcur>>

\* the tick reads playback_active again (line 64): with the flag set it
\* reads one quantum and writes the frame if there is a read codec, or loads
\* the word to clear playback_active on an empty buffer (lines 83-85), or
\* does nothing; then it releases playback_mutex
DrainBlock ==
    /\ Running
    /\ mpc = "word_drain"
    /\ LET r == tech[mcur]
           b == PlaybackBlock(r)
       IN  IF ~r.playback_active
           THEN /\ mpc' = "read_frame"
                /\ UNCHANGED <<tech, tick, mloc>>
           ELSE IF b.rec.playback_active
           THEN /\ tech' = [tech EXCEPT ![mcur].inuse = b.rec.inuse]
                /\ \E read_codec \in BOOLEAN :
                     tick' = [tick EXCEPT !.drained = b.read,
                                          !.injected = (b.read > 0 /\ read_codec)]
                /\ mpc' = "read_frame"
                /\ UNCHANGED mloc
           ELSE /\ mloc' = [mloc EXCEPT !.word =
                              SetBit(LoadWord(r), "playback_active", FALSE)]
                /\ mpc' = "word_pause"
                /\ UNCHANGED <<tech, tick>>
    /\ UNCHANGED <<callAlive, chanPrivate, taps, nalloc, mcur>>

\* the drain, the contents of the buffer aside
WordTickDrain ==
    /\ DrainBlock
    /\ ControlUnchanged

\* the tick stores the word with playback_active cleared, logs and releases
\* playback_mutex (lines 85-90)
WordTickPause ==
    /\ Running
    /\ mpc = "word_pause"
    /\ tech' = [tech EXCEPT ![mcur] = StoreWord(tech[mcur], mloc.word)]
    /\ tick' = [tick EXCEPT !.log = "Buffer empty, pausing"]
    /\ mloc' = [mloc EXCEPT !.word = NoWord]
    /\ mpc' = "read_frame"
    /\ ControlUnchanged
    /\ UNCHANGED <<callAlive, chanPrivate, taps, nalloc, mcur>>

\* SWITCH_ABC_TYPE_READ after the unlock of playback_mutex:
\* return stream_frame(bug)
ReadFrame ==
    /\ Running
    /\ mpc = "read_frame"
    /\ mpc' = "read_return"
    /\ tick' = [tick EXCEPT !.forwarded = stream_frame(tech[mcur]),
                            !.ret = stream_frame_return(tech[mcur])]
    /\ ControlUnchanged
    /\ UNCHANGED <<callAlive, chanPrivate, taps, tech, nalloc, mcur, mloc>>

\* the READ callback has returned SWITCH_TRUE to the platform
ReadReturn ==
    /\ Running
    /\ mpc = "read_return"
    /\ mpc' = "idle"
    /\ mcur' = 0
    /\ tick' = NoTick
    /\ ControlUnchanged
    /\ UNCHANGED <<callAlive, chanPrivate, taps, tech, nalloc, mloc>>

\* the far end hangs up
Hangup ==
    /\ Running
    /\ callAlive
    /\ mpc = "idle"
    /\ callAlive' = FALSE
    /\ ControlUnchanged
    /\ UNCHANGED <<chanPrivate, taps, tech, nalloc, mpc, mcur, mloc, tick>>

\* the platform removes the bugs of a call that ended: CLOSE for each
TapClose(s) ==
    /\ Running
    /\ ~callAlive
    /\ mpc = "idle"
    /\ s \in taps
    /\ EnterClose(s)
    /\ ControlUnchanged
    /\ UNCHANGED <<callAlive, chanPrivate, tech, nalloc, tick>>

\* SWITCH_ABC_TYPE_CLOSE: stream_session_cleanup(session, NULL, channel_closing)
\* up to its check-and-set, which waits for the session mutex
CloseCleanup ==
    /\ Running
    /\ mpc = "close_cleanup"
    /\ ~SessionMutexHeld
    /\ tick' = NoTick
    /\ mcur' = 0
    /\ IF Claimable(World)
       THEN /\ SetWorld(ClaimCleanup(World, chanPrivate))
            /\ mloc' = [mloc EXCEPT !.tgt = chanPrivate]
            /\ mpc' = "close_release"
       ELSE /\ mpc' = "idle"
            /\ mloc' = NoMloc
            /\ UNCHANGED <<chanPrivate, taps, tech>>
    /\ ControlUnchanged
    /\ UNCHANGED <<callAlive, nalloc>>

\* SWITCH_ABC_TYPE_CLOSE: the claimed cleanup's release
CloseRelease ==
    /\ Running
    /\ mpc = "close_release"
    /\ SetWorld(FinishCleanup(World, mloc.tgt, mloc.channel_closing))
    /\ mpc' = "idle"
    /\ mloc' = NoMloc
    /\ ControlUnchanged
    /\ UNCHANGED <<callAlive, nalloc, mcur, tick>>

(***************************************************************************)
(* The sink side of the glue.                                              *)
(***************************************************************************)
\* byte counts the sink delivers in one message
PushSizes == {160, 320, 1600}

\* push(bytes): append, dropping the oldest bytes past the capacity
PushBytes(r, n) ==
    [r EXCEPT !.inuse = IF @ + n > PlaybackCapacity THEN PlaybackCapacity ELSE @ + n]

\* the sink pushes n bytes; push takes playback_mutex, which a tick inside
\* its playback block holds
Push(s, n) ==
    /\ Running
    /\ s \in taps
    /\ Live(s)
    /\ mpc \notin WordLocked
    /\ tech' = [tech EXCEPT ![s] = PushBytes(tech[s], n)]
    /\ ControlUnchanged
    /\ UNCHANGED <<callAlive, chanPrivate, taps, nalloc, mpc, mcur, mloc, tick>>

\* the glue requests the close of the session, under the session mutex
RequestClose(s) ==
    /\ Running
    /\ s \in taps
    /\ Live(s)
    /\ ~SessionMutexHeld
    /\ ~tech[s].close_requested
    /\ tech' = [tech EXCEPT ![s].close_requested = TRUE]
    /\ ControlUnchanged
    /\ UNCHANGED <<callAlive, chanPrivate, taps, nalloc, mpc, mcur, mloc, tick>>

(***************************************************************************)
(* The playback buffer with its contents.                                  *)
(***************************************************************************)
\* byte counts of the sink's messages, one of them larger than the buffer
BufferPushSizes == PushSizes \cup {2080}

\* the blocks of a message of n bytes that follows k pushed blocks
NewBlocks(k, n) == [i \in 1..(n \div ChunkBytes) |-> k + i]

\* discard the n oldest blocks
RingToss(data, n) == SubSeq(data, n + 1, Len(data))

\* push(bytes) on the contents: make room by discarding the oldest blocks,
\* those of the message itself when it is larger than the buffer, and append
PushRing_DropNewest(data, new) ==
    LET cap == PlaybackCapacity \div ChunkBytes
        room == cap - Len(data)
    IN  data \o SubSeq(new, 1, IF Len(new) > room THEN room ELSE Len(new))

PushRing(data, new) ==
    LET cap == PlaybackCapacity \div ChunkBytes
        fit == IF Len(new) > cap THEN RingToss(new, Len(new) - cap) ELSE new
        over == Len(data) + Len(fit) - cap
    IN  (IF over > 0 THEN RingToss(data, over) ELSE data) \o fit

\* switch_buffer_read(playback_buffer, l16_data, n): the n oldest bytes
RingRead(data, n) ==
    [read |-> SubSeq(data, 1, n \div ChunkBytes),
     rest |-> SubSeq(data, (n \div ChunkBytes) + 1, Len(data))]

\* a session is attached and nothing has been pushed yet
InitBuffer ==
    /\ pc = [t \in Threads |-> "idle"]
    /\ loc = [t \in Threads |-> NoLoc]
    /\ out = [t \in Threads |-> NoOut]
    /\ callAlive = TRUE
    /\ chanPrivate = 1
    /\ taps = {1}
    /\ tech = [s \in SessionIds |-> IF s = 1 THEN NewTech ELSE FreeTech]
    /\ nalloc = 1
    /\ mpc = "idle"
    /\ mcur = 0
    /\ mloc = NoMloc
    /\ tick = NoTick
    /\ playback_buffer = EmptyBuffer

\* the sink pushes a message of n bytes into the buffer of session 1
BufferPush(n) ==
    LET new == NewBlocks(playback_buffer.pushed, n)
        data == PushRing(playback_buffer.data, new)
    IN  /\ Running
        /\ 1 \in taps
        /\ Live(1)
        /\ mpc \notin WordLocked
        /\ playback_buffer.pushed + Len(new) <= MaxPushed
        /\ tech' = [tech EXCEPT ![1] = PushBytes(tech[1], n)]
        /\ playback_buffer' =
             [data |-> data,
              pushed |-> playback_buffer.pushed + Len(new),
              tossed |-> playback_buffer.tossed
                           + (Len(playback_buffer.data) + Len(new) - Len(data))]
        /\ UNCHANGED <<pc, loc, out, callAlive, chanPrivate, taps, nalloc, mpc, mcur, mloc, tick>>

\* the drain with the contents of the buffer: the bytes it reads are the
\* oldest ones
BufferTickDrain ==
    /\ DrainBlock
    /\ playback_buffer' =
         [playback_buffer EXCEPT !.data = RingRead(playback_buffer.data, tick'.drained).rest]
    /\ UNCHANGED <<pc, loc, out>>

\* the commands a control thread sends while the buffer is followed
BufferCommands == {<<T_uuid, T_pause>>, <<T_uuid, T_resume>>}

\* the model follows a call for k allocations: no command line that would
\* reach stream_session_init is dispatched past them
StartBound(argv, k) ==
    (/\ Parsed[argv].act = "start_capture"
     /\ switch_core_session_locate(Parsed[argv].known)
     /\ chanPrivate = 0)
      => nalloc + PendingStarts < k

Dispatch(t) ==
    /\ pc[t] = "idle"
    /\ \E argv \in Commands : StartBound(argv, MaxStarts) /\ stream_function(t, argv)
DispatchRace(t) ==
    /\ pc[t] = "idle"
    /\ \E argv \in RaceCommands : StartBound(argv, MaxSessions) /\ stream_function(t, argv)

\* the media thread and the close request while nothing is pushed: with an
\* empty playback buffer a frame tick writes no flag
RaceMediaNext ==
    \/ \E s \in SessionIds : ReadEnter(s)
    \/ PruneBug
    \/ WordTickWarm
    \/ WordTickDrain
    \/ ReadFrame
    \/ ReadReturn
    \/ Hangup
    \/ \E s \in SessionIds : TapClose(s)
    \/ CloseCleanup
    \/ CloseRelease
    \/ \E s \in SessionIds : RequestClose(s)

\* the media thread and the close request
MediaNext ==
    \/ \E s \in SessionIds : ReadEnter(s)
    \/ PruneBug
    \/ WordTickWarm
    \/ WordTickArm
    \/ WordTickDrain
    \/ WordTickPause
    \/ ReadFrame
    \/ ReadReturn
    \/ Hangup
    \/ \E s \in SessionIds : TapClose(s)
    \/ CloseCleanup
    \/ CloseRelease
    \/ \E s \in SessionIds : RequestClose(s)

\* one control thread with the whole command language, the media thread and
\* the sink
Next ==
    \/ Dispatch("c1")
    \/ StartInit("c1")
    \/ StartBugAdd("c1")
    \/ StartSetPrivate("c1")
    \/ PauseResumeStore("c1")
    \/ CleanupRelease("c1")
    \/ Return("c1")
    \/ MediaNext
    \/ \E s \in SessionIds, n \in PushSizes : Push(s, n)

Spec == Init /\ [][Next]_vars

\* two control threads racing start and stop commands, and the media thread
NextRace ==
    \/ \E t \in Threads : DispatchRace(t)
    \/ \E t \in Threads : StartInit(t)
    \/ \E t \in Threads : StartBugAdd(t)
    \/ \E t \in Threads : StartSetPrivate(t)
    \/ \E t \in Threads : CleanupRelease(t)
    \/ \E t \in Threads : Return(t)
    \/ RaceMediaNext

SpecRace == Init /\ [][NextRace]_vars

\* one attached session with the contents of its playback buffer: the sink,
\* the frame ticks, pause and resume, the close request and the tap-close
NextBuffer ==
    \/ \E n \in BufferPushSizes : BufferPush(n)
    \/ ReadEnter(1)
    \/ WordTickWarm
    \/ WordTickArm
    \/ BufferTickDrain
    \/ WordTickPause
    \/ ReadFrame
    \/ ReadReturn
    \/ PruneBug
    \/ CloseCleanup
    \/ CloseRelease
    \/ RequestClose(1)
    \/ \E argv \in BufferCommands : stream_function("c1", argv)
    \/ PauseResumeStore("c1")
    \/ Return("c1")

SpecBuffer == InitBuffer /\ [][NextBuffer]_vars

(***************************************************************************)
(* The flag writes of the command path, each as a load and a store of the *)
(* flags word under the session mutex, against the frame tick's writes    *)
(* under playback_mutex.                                                  *)
(***************************************************************************)
\* the flags a command writes under the session mutex
CommandFlags == {"audio_paused", "close_requested", "cleanup_started"}
\* the writes of the command path: pause, resume, close request, cleanup claim
CommandWrites == {<<"audio_paused", TRUE>>, <<"audio_paused", FALSE>>,
                  <<"close_requested", TRUE>>, <<"cleanup_started", TRUE>>}

\* a command takes the session mutex and loads the word for its write of
\* flag f
WordCommandLoad(t, f, v) ==
    /\ Running
    /\ pc[t] = "idle"
    /\ Live(1)
    /\ ~tech[1].cleanup_started
    /\ f = "close_requested" => ~tech[1].close_requested
    /\ loc' = [loc EXCEPT ![t].word = SetBit(LoadWord(tech[1]), f, v)]
    /\ pc' = [pc EXCEPT ![t] = "word_store"]
    /\ MediaUnchanged
    /\ UNCHANGED <<out, callAlive, chanPrivate, taps, tech, nalloc>>

\* the command stores the word and releases the session mutex
WordCommandStore(t) ==
    /\ Running
    /\ pc[t] = "word_store"
    /\ tech' = [tech EXCEPT ![1] = StoreWord(tech[1], loc[t].word)]
    /\ pc' = [pc EXCEPT ![t] = "idle"]
    /\ loc' = [loc EXCEPT ![t] = NoLoc]
    /\ MediaUnchanged
    /\ UNCHANGED <<out, callAlive, chanPrivate, taps, nalloc>>

\* one attached session: the sink, the frame ticks step by step, the
\* tap-close and the flag writes of one control thread
NextWord ==
    \/ \E n \in PushSizes : Push(1, n)
    \/ ReadEnter(1)
    \/ WordTickWarm
    \/ WordTickArm
    \/ WordTickDrain
    \/ WordTickPause
    \/ ReadFrame
    \/ ReadReturn
    \/ PruneBug
    \/ CloseCleanup
    \/ CloseRelease
    \/ \E w \in CommandWrites : WordCommandLoad("c1", w[1], w[2])
    \/ WordCommandStore("c1")

SpecWord == InitBuffer /\ [][NextWord]_vars

(***************************************************************************)
(* Steps and inputs the properties speak of.                               *)
(***************************************************************************)
\* thread t dispatches a command line
DispatchStep(t) == pc[t] = "idle" /\ pc'[t] # "idle"
\* a frame tick for bug s passes or fails the guard of SWITCH_ABC_TYPE_READ
EnterStep(s) == mpc = "idle" /\ callAlive /\ mpc' # "idle" /\ mcur' = s
\* a frame tick for bug s tests for the warmup
WarmStep(s) == mpc = "read_body" /\ mcur = s /\ mpc' # "read_body"
\* a frame tick for bug s stores the flags word with playback_active set
ArmStep(s) == mpc = "word_arm" /\ mcur = s /\ mpc' # "word_arm"
\* a frame tick for bug s runs the drain of its playback block
BodyStep(s) == mpc = "word_drain" /\ mcur = s /\ mpc' # "word_drain"
\* a frame tick for bug s stores the flags word with playback_active cleared
PauseStep(s) == mpc = "word_pause" /\ mcur = s /\ mpc' # "word_pause"
\* the step is a step of a frame tick for bug s or a push into its buffer
PlaybackStep(s) ==
    \/ mpc \in InReadCallback /\ mcur = s /\ mpc' # mpc
    \/ tech'[s].inuse > tech[s].inuse
\* a frame tick for bug s runs stream_frame
FrameStep(s) == mpc = "read_frame" /\ mcur = s /\ mpc' = "read_return"
\* the platform prunes bug s after its READ callback returned SWITCH_FALSE
PruneStep(s) == mpc = "read_false" /\ mcur = s /\ mpc' # "read_false"
\* some path holds the claimed cleanup of s and has not released it yet
InRelease(s) ==
    \/ \E t \in Threads : pc[t] = "cleanup" /\ loc[t].tgt = s
    \/ mpc = "close_release" /\ mloc.tgt = s
IsStartLine(argv) == Len(argv) >= 4 /\ strcasecmp0(Arg(argv, 1), T_start)
IsStopLine(argv) == Len(argv) >= 2 /\ strcasecmp0(Arg(argv, 1), T_stop)
\* the command lines of an existing call that validation must reject
ValidationRejected ==
    {argv \in Commands :
        /\ Arg(argv, 0) = T_uuid
        /\ \/ IsStartLine(argv) /\ StartValidation(argv) # "ok"
           \/ IsStopLine(argv) /\ Len(argv) > 2 /\ ~is_valid_utf8(Arg(argv, 2))}
\* the start lines of an existing call that reach the rate checks
RateChecked ==
    {argv \in Commands :
        /\ Arg(argv, 0) = T_uuid
        /\ IsStartLine(argv)
        /\ StartValidation(argv) \in {"ok", "invalid_sample_rate", "g711_rate"}}
\* the rate rule as the Format Policy states it
PositiveMultipleOf8000(r) == r > 0 /\ r % 8000 = 0
PolicyAccepts(argv) ==
    /\ PositiveMultipleOf8000(ParseSampling(argv))
    /\ ParseAudioFormat(argv) \in {AUDIO_FORMAT_PCMU, AUDIO_FORMAT_PCMA}
         => ParseSampling(argv) = 8000
PolicyAccepted == {argv \in RateChecked : PolicyAccepts(argv)}

C2_AtMostOneSessionAndTap ==
    /\ Cardinality({s \in SessionIds : Live(s)}) <= 1
    /\ Cardinality(taps) <= 1

C4_ArmedOnlyAtThreshold ==
    [][\A s \in SessionIds :
         /\ ~tech[s].playback_active /\ tech'[s].playback_active
              => ArmStep(s) /\ tech[s].inuse >= 1600
         /\ WarmStep(s) /\ Live(s) /\ ~tech[s].playback_active /\ tech[s].inuse >= 1600
              => mpc' = "word_arm"
         /\ ArmStep(s) /\ Live(s) => tech'[s].playback_active
         /\ BodyStep(s) /\ Live(s) /\ tick.log = "Streaming started"
              => /\ tick'.drained = 320
                 /\ tech'[s].inuse = tech[s].inuse - 320]_vars

\* C5: a start that reaches the rate checks is accepted if and only if its
\* rate r has r > 0 and r mod 8000 = 0 and, for mu-law and A-law, r = 8000.
C5_AcceptsIffPositiveMultiple ==
    \A t \in Threads :
        loc[t].argv \in RateChecked =>
          /\ pc[t] = "start_init" => loc[t].argv \in PolicyAccepted
          /\ pc[t] = "done" /\ out[t].reason \in {"invalid_sample_rate", "g711_rate"}
               => loc[t].argv \notin PolicyAccepted
          /\ pc[t] = "done" /\ out[t].reason \notin {"invalid_sample_rate", "g711_rate", "no_session"}
               => loc[t].argv \in PolicyAccepted

\* C6: every dispatched command line writes exactly one result marker, the
\* success marker if and only if the command succeeded and a failure marker
\* for every failure.
C6_ExactlyOneResultMarker ==
    \A t \in Threads :
        pc[t] = "done" =>
          IF out[t].status = SWITCH_STATUS_SUCCESS
          THEN out[t].markers = <<"+OK Success">>
          ELSE out[t].markers \in {<<"-ERR Operation Failed">>, <<"-USAGE">>}

\* C7: graceful-shutdown on an attached session whose cleanup has not
\* started sets its close request, succeeds and keeps the buffered audio.
C7_GracefulShutdownRequestsClose ==
    [][\A t \in Threads :
         /\ DispatchStep(t)
         /\ Len(loc'[t].argv) >= 2
         /\ Arg(loc'[t].argv, 0) = T_uuid
         /\ Arg(loc'[t].argv, 1) = T_graceful
         /\ callAlive
         /\ chanPrivate # 0
         /\ ~tech[chanPrivate].cleanup_started
         => /\ tech'[chanPrivate].close_requested
            /\ tech'[chanPrivate].inuse = tech[chanPrivate].inuse
            /\ out'[t].status = SWITCH_STATUS_SUCCESS]_vars

\* C8: once cleanup_started is set it stays set and is not claimed again, no
\* frame tick drains, injects or forwards for the session, and no pause,
\* resume or send_text takes effect on it.
C8_NothingAfterCleanupStarted ==
    [][\A s \in SessionIds :
         tech[s].cleanup_started =>
           /\ tech'[s].cleanup_started
           /\ tech'[s].claims = tech[s].claims
           /\ BodyStep(s) =>
                /\ tick'.drained = 0
                /\ ~tick'.injected
                /\ tech'[s] = tech[s]
           /\ FrameStep(s) => ~tick'.forwarded
           /\ \A t \in Threads :
                DispatchStep(t) /\ chanPrivate = s /\ ~IsStopLine(loc'[t].argv)
                  => tech'[s] = tech[s] /\ ~out'[t].sent]_vars

\* C9: with close_requested set, a frame tick returns the detach signal, is
\* unlinked, and neither drains the buffer nor forwards the frame;
\* close_requested is never cleared while the session exists.
C9_CloseRequestedDetaches ==
    [][\A s \in SessionIds :
         tech[s].close_requested =>
           /\ tech'[s].state = "live" => tech'[s].close_requested
           /\ EnterStep(s) =>
                /\ tick'.ret = "SWITCH_FALSE"
                /\ tick'.drained = 0
                /\ ~tick'.injected
                /\ ~tick'.forwarded
                /\ mpc' = "read_false"
                /\ tech' = tech
           /\ PruneStep(s) =>
                /\ s \notin taps'
                /\ tech' = tech
                /\ tick'.drained = 0 /\ ~tick'.injected /\ ~tick'.forwarded
           /\ s \notin taps => s \notin taps']_vars

\* C10: a start or stop that validation rejects changes no session, buffer,
\* tap or flag, and fails.
C10_RejectedCommandChangesNothing ==
    [][\A t \in Threads :
         DispatchStep(t) /\ loc'[t].argv \in ValidationRejected /\ callAlive
           => /\ UNCHANGED <<callAlive, chanPrivate, taps, tech, nalloc>>
              /\ UNCHANGED <<mpc, mcur, mloc, tick>>
              /\ pc'[t] = "done"
              /\ out'[t].status # SWITCH_STATUS_SUCCESS
              /\ ~out'[t].sent]_vars

\* C10 witness: a stop with invalid UTF-8 text was rejected and the session
\* is still attached with audio buffered
C10_Witness ==
    /\ pc["c1"] = "done"
    /\ loc["c1"].argv = <<T_uuid, T_stop, T_badFF>>
    /\ out["c1"].reason = "invalid_utf8"
    /\ chanPrivate # 0
    /\ chanPrivate \in taps
    /\ Live(chanPrivate)
    /\ tech[chanPrivate].inuse > 0

\* C11: a start that reports failure on a call with no session leaves no
\* partial state, whichever step failed: no session record, buffer or tap is
\* added and the call's private stays empty.
C11_FailedStartLeavesNothing ==
    [][\A t \in Threads :
         /\ pc[t] \in {"idle", "start_init", "start_bug_add"}
         /\ pc'[t] = "done"
         /\ IsStartLine(loc'[t].argv)
         /\ out'[t].reason \in {"not_pre_answered", "init_failed", "bug_add_failed"}
         => /\ out'[t].status # SWITCH_STATUS_SUCCESS
            /\ chanPrivate' = 0
            /\ tech' = tech
            /\ taps' = taps
            /\ \A s \in SessionIds : Live(s) => s \in taps]_vars

IsPauseLine(argv) == Len(argv) >= 2 /\ strcasecmp0(Arg(argv, 1), T_pause)
IsResumeLine(argv) == Len(argv) >= 2 /\ strcasecmp0(Arg(argv, 1), T_resume)

\* C13: pause and resume on an attached session succeed and change only its
\* paused flag, which becomes true for pause and false for resume whatever
\* it was; the buffer's occupancy and active flag, close_requested,
\* cleanup_started, the tap and the other sessions are unchanged.
C13_PauseResumeOnlyPausedFlag ==
    [][\A t \in Threads :
         /\ /\ DispatchStep(t)
            /\ IsPauseLine(loc'[t].argv) \/ IsResumeLine(loc'[t].argv)
            /\ Arg(loc'[t].argv, 0) = T_uuid
            /\ callAlive
            /\ chanPrivate # 0
            /\ ~tech[chanPrivate].cleanup_started
            => /\ pc'[t] = "flag_store"
               /\ loc'[t].tgt = chanPrivate
               /\ UNCHANGED <<chanPrivate, taps, tech, nalloc, mpc, mcur, mloc, tick>>
         /\ pc[t] = "flag_store" /\ pc'[t] # "flag_store"
            => /\ pc'[t] = "done"
               /\ out'[t].status = SWITCH_STATUS_SUCCESS
               /\ tech' = [tech EXCEPT ![loc[t].tgt].audio_paused = IsPauseLine(loc[t].argv)]
               /\ tech[loc[t].tgt].audio_paused = IsPauseLine(loc[t].argv) => tech' = tech
               /\ UNCHANGED <<chanPrivate, taps, nalloc, mpc, mcur, mloc, tick>>]_vars

\* the start lines that reach the rate checks with mu-law or A-law and a
\* rate other than 8000
G711OtherRate ==
    {argv \in RateChecked :
        /\ ParseAudioFormat(argv) \in {AUDIO_FORMAT_PCMU, AUDIO_FORMAT_PCMA}
        /\ ParseSampling(argv) # 8000}

\* C14: a mu-law or A-law start with any rate other than 8000 is rejected
\* with the unsupported-rate-for-encoding reason, never with the generic
\* invalid-rate reason.
C14_G711RateHasItsOwnReason ==
    \A t \in Threads :
        pc[t] # "idle" /\ loc[t].argv \in G711OtherRate /\ out[t].reason # "no_session"
          => /\ pc[t] = "done"
             /\ out[t].status # SWITCH_STATUS_SUCCESS
             /\ out[t].reason = "g711_rate"

\* the send_text lines of an existing call that carry valid UTF-8 text
SendTextValid ==
    {argv \in Commands :
        /\ Arg(argv, 0) = T_uuid
        /\ Len(argv) >= 3
        /\ strcasecmp0(Arg(argv, 1), T_send_text)
        /\ is_valid_utf8(Arg(argv, 2))}

\* C15: send_text with valid text changes no session, flag, buffer or tap;
\* with no attachment it fails and forwards nothing, with an attached
\* session that is active or paused it forwards the text and succeeds.
C15_SendTextNeedsAttachment ==
    [][\A t \in Threads :
         DispatchStep(t) /\ loc'[t].argv \in SendTextValid /\ callAlive
           => /\ pc'[t] = "done"
              /\ UNCHANGED <<chanPrivate, taps, tech, nalloc>>
              /\ chanPrivate = 0
                   => /\ out'[t].status = SWITCH_STATUS_FALSE
                      /\ out'[t].reason = "no_bug"
                      /\ ~out'[t].sent
              /\ chanPrivate # 0 /\ ~tech[chanPrivate].cleanup_started
                   => /\ out'[t].status = SWITCH_STATUS_SUCCESS
                      /\ out'[t].sent]_vars

\* C15 witness: send_text has failed on a call whose session was cleaned up
C15_Witness ==
    /\ pc["c1"] = "done"
    /\ loc["c1"].argv \in SendTextValid
    /\ out["c1"].reason = "no_bug"
    /\ ~out["c1"].sent
    /\ chanPrivate = 0
    /\ \E s \in SessionIds : tech[s].released = 1

\* the blocks of the buffer are consecutive blocks of the sink's stream
Consecutive(data) == \A i \in 1..(Len(data) - 1) : data[i + 1] = data[i] + 1

\* C16: a push is never refused, occupancy never exceeds the capacity, and
\* a push that does not fit discards the oldest bytes: afterwards the buffer
\* ends with the bytes just pushed, holds the most recent bytes in the order
\* they were pushed, and has discarded only what did not fit.
C16_PushKeepsNewestInOrder ==
    [][LET old == playback_buffer.data
           new == playback_buffer'.data
           cap == PlaybackCapacity \div ChunkBytes
           k == playback_buffer'.pushed - playback_buffer.pushed
       IN  /\ tech'[1].state = "live" =>
                /\ Len(new) * ChunkBytes = tech'[1].inuse
                /\ tech'[1].inuse <= PlaybackCapacity
           /\ Consecutive(new)
           /\ k > 0 =>
                /\ new # << >>
                /\ new[Len(new)] = playback_buffer'.pushed
                /\ Len(new) = IF Len(old) + k > cap THEN cap ELSE Len(old) + k
                /\ playback_buffer'.tossed - playback_buffer.tossed
                     = (IF Len(old) + k > cap THEN Len(old) + k - cap ELSE 0)
           /\ k = 0 =>
                /\ playback_buffer'.tossed = playback_buffer.tossed
                /\ new = SubSeq(old, Len(old) - Len(new) + 1, Len(old))
                /\ Len(new) # Len(old) =>
                     /\ BodyStep(1)
                     /\ tick'.drained = (Len(old) - Len(new)) * ChunkBytes]_vars

\* C16 witness: a push into a full buffer has discarded the oldest blocks
\* and the buffer is full of the newest ones
C16_Witness ==
    /\ playback_buffer.tossed > 0
    /\ Len(playback_buffer.data) = PlaybackCapacity \div ChunkBytes
    /\ playback_buffer.data[Len(playback_buffer.data)] = playback_buffer.pushed
    /\ tech[1].inuse = PlaybackCapacity

\* C17: the occupancy of a session's buffer goes down only in the playback
\* block of a frame tick, once per tick and by exactly 320 bytes; a tick
\* drains 0 or 320 bytes and injects a frame only of the 320 bytes it
\* drained.
C17_WholeQuantumOncePerTick ==
    [][\A s \in SessionIds :
         /\ Live(s) /\ tech'[s].state = "live" /\ tech'[s].inuse < tech[s].inuse
              => /\ BodyStep(s)
                 /\ tech[s].inuse - tech'[s].inuse = l16_frame_size
         /\ BodyStep(s) /\ Live(s)
              => /\ tick'.drained \in {0, l16_frame_size}
                 /\ tick'.drained = tech[s].inuse - tech'[s].inuse
                 /\ tick'.injected => tick'.drained = l16_frame_size
                 /\ tick.drained = 0
         /\ mpc \in InReadCallback \ {"word_drain"} /\ mcur = s /\ Live(s)
            /\ tech'[s].state = "live"
              => tech'[s].inuse >= tech[s].inuse]_vars

\* C17 witness: a tick has drained and injected one quantum from a buffer
\* that holds a number of bytes that is no multiple of 320
C17_Witness ==
    /\ mpc = "read_return"
    /\ tick.drained = l16_frame_size
    /\ tick.injected
    /\ Live(mcur)
    /\ tech[mcur].inuse % l16_frame_size = 160

\* C18: every quantum a frame tick removes from the buffer is submitted for
\* injection in that tick, also when the call has no read codec.
C18_DrainedQuantumIsInjected ==
    [][\A s \in SessionIds :
         BodyStep(s) /\ Live(s) /\ tech'[s].inuse = tech[s].inuse - l16_frame_size
           => tick'.injected]_vars

\* C19: the Frame Engine reads close_requested, in the guard of a frame
\* tick and in the tap-close handler, while it holds the Session mutex.
C19_FlagReadUnderSessionMutex ==
    mpc \in {"read_body", "read_false", "close_cleanup"} => "mutex" \in mloc.held

\* C20: a cleanup entered from a stop command carries reason 0 and so
\* detaches the tap itself; a cleanup entered from the tap-close handler
\* carries reason 1 exactly when close_requested is not set on the session
\* whose tap closes, also when that tap-close is raised by the detach of a
\* stop command; the release works with the reason the path computed.
C20_ReasonFollowsEntryPath ==
    [][/\ \A t \in Threads :
            /\ pc[t] = "idle" /\ pc'[t] = "cleanup" =>
                 loc'[t].tgt = chanPrivate /\ loc'[t].channel_closing = 0
            /\ pc[t] = "cleanup" /\ pc'[t] # "cleanup" =>
                 LET s == loc[t].tgt IN
                 /\ s \notin taps'
                 /\ s \in taps =>
                      loc'[t].nested_closing = 1 <=> ~tech[s].close_requested
                 /\ s \in taps => loc'[t].nested_closing \in {0, 1}
                 /\ s \notin taps => loc'[t].nested_closing = -1
       /\ mpc # "close_cleanup" /\ mpc' = "close_cleanup" =>
            /\ mcur' \in taps \ taps'
            /\ mloc'.channel_closing \in {0, 1}
            /\ mloc'.channel_closing = 1 <=> ~tech[mcur'].close_requested
       /\ mpc = "close_release" /\ mpc' # "close_release" =>
            /\ tech'[mloc.tgt].released = tech[mloc.tgt].released + 1
            /\ mloc.channel_closing = 1 => taps' = taps
            /\ mloc.channel_closing = 0 => mloc.tgt \notin taps']_vars

\* a stop command has detached the tap of a session whose close was not
\* requested: the tap-close its detach raised computed reason 1, the stop
\* itself carried reason 0 and the session is released
C20_Witness ==
    \E t \in Threads :
        /\ pc[t] = "done"
        /\ IsStopLine(loc[t].argv)
        /\ loc[t].channel_closing = 0
        /\ loc[t].nested_closing = 1
        /\ ~tech[loc[t].tgt].close_requested
        /\ tech[loc[t].tgt].released = 1
        /\ loc[t].tgt \notin taps

C21_FlagWritesDoNotInterfere ==
    [][/\ mpc \in {"word_arm", "word_pause"} /\ mpc' # mpc =>
            \A f \in CommandFlags : tech'[1][f] = tech[1][f]
       /\ pc["c1"] = "word_store" /\ pc'["c1"] = "idle" =>
            tech'[1].playback_active = tech[1].playback_active]_vars

=============================================================================
